---- MODULE Spec2Model ----
(***************************************************************************)
(* Georgist land value simulation (src/original/simulation.tsx): the round *)
(* pipeline (processRoundRef.current), the time-travel handlers            *)
(* (handleStepBack, handleStepForward, handleReset) and the configuration  *)
(* setters, as one state machine.                                          *)
(*                                                                         *)
(* Numbers.  The program computes values in floating point from integer    *)
(* environment scores, community scores that are multiples of 0.5 and      *)
(* multipliers that are multiples of 0.1 (slider step).  The model keeps   *)
(* them exact as integers:                                                 *)
(*   - communityScore is stored in halves (2 = one occupied neighbour),    *)
(*   - environmentMultiplier and communityMultiplier are stored in tenths, *)
(*   - every value and price (currentValue, leasePrice) is in units of     *)
(*     1/Unit, and an integer wealth w is compared as w * Unit.            *)
(* Absent values: JavaScript null / undefined is Null for numbers and      *)
(* NoAgent for an agent object.                                            *)
(***************************************************************************)
EXTENDS Integers, Sequences, FiniteSets, TLC

\* ------------------------------------------------------------------ bounds
\* The grid is GRID_SIZE x GRID_SIZE (10 in the program, scaled down here).
GRID_SIZE == 3
\* Rounds are processed while round < MaxRound.
MaxRound == 3
\* The history sequence is capped at MaxHistory snapshots.
MaxHistory == 3
\* A round is processed while the agents of the live state and the round's
\* immigrants together are at most MaxAgents.
MaxAgents == 3
\* Most configuration changes in one run, made while round <= ConfigureUntilRound.
MaxConfigChanges == 1
ConfigureUntilRound == 0
\* The immigration-rate slider is 1..MaxImmigration (1..25 in the program).
MaxImmigration == 2
\* The lease-length sliders are 1..MaxLease (1..25 in the program).
MaxLease == 2
\* The max-wealth slider is MinWealthCap..MaxWealthCap (20..50 in the program).
MaxWealthCap == 3
\* Date.now() and the random part of an identity together are 0..MaxNonce.
MaxNonce == 0

\* --------------------------------------------------------------- constants
TOTAL_PARCELS == GRID_SIZE * GRID_SIZE
\* Values are integers in units of 1/Unit: 1/2 (community) times 1/10 (weights).
Unit == 20
Null == -1
Indices == 0 .. (TOTAL_PARCELS - 1)

VARIABLES
    immigrationRate, minLeaseLength, maxLeaseLength, maxWealth, vacancyDecay,
    environmentMultiplier, communityMultiplier,
    round, parcels, unhoused, history, historyIndex,
    configChanges,  \* number of configuration changes so far (bounds the run)
    last            \* what the live round that produced this state did

config == <<immigrationRate, minLeaseLength, maxLeaseLength, maxWealth,
            vacancyDecay, environmentMultiplier, communityMultiplier>>
sim == <<round, parcels, unhoused, history, historyIndex>>
vars == <<config, sim, configChanges, last>>

\* ------------------------------------------------------------------ agents
\* An identity `${Date.now()}-${random}-${currentRound}-${i}` is the tuple
\* <<nonce, currentRound, i>>; strings with equal nonce are equal exactly when
\* round and index are.
NoId == <<Null, Null, Null>>
NoAgent == [id |-> NoId, wealth |-> Null, roundEntered |-> Null,
            leaseStart |-> Null, leaseLength |-> Null]

Max(a, b) == IF a >= b THEN a ELSE b

\* ------------------------------------------------------------------- grid
initializeParcels ==
    [i \in Indices |->
        [id |-> i,
         row |-> i \div GRID_SIZE,
         col |-> i % GRID_SIZE,
         environmentScore |-> (i % GRID_SIZE) + 1,
         communityScore |-> 0,
         occupant |-> NoAgent,
         leasePrice |-> Null,
         roundsVacant |-> 0,
         totalRoundsVacant |-> 0,
         history |-> <<>>]]

\* the neighborIndex values of the first double loop of calculateCommunityScore:
\* dr, dc in -1..1, not both 0, inside the grid
InnerRing ==
    [i \in Indices |->
        {nr * GRID_SIZE + nc : <<nr, nc>> \in
            {<<(i \div GRID_SIZE) + d[1], (i % GRID_SIZE) + d[2]>> :
                d \in {e \in (-1 .. 1) \X (-1 .. 1) : e # <<0, 0>>}}
            \cap ((0 .. GRID_SIZE - 1) \X (0 .. GRID_SIZE - 1))}]

\* those of the second double loop: dr, dc in -2..2, skipping the cells with
\* |dr| <= 1 and |dc| <= 1, inside the grid
OuterRing ==
    [i \in Indices |->
        {nr * GRID_SIZE + nc : <<nr, nc>> \in
            {<<(i \div GRID_SIZE) + d[1], (i % GRID_SIZE) + d[2]>> :
                d \in {e \in (-2 .. 2) \X (-2 .. 2) :
                         ~ (e[1] \in -1 .. 1 /\ e[2] \in -1 .. 1)}}
            \cap ((0 .. GRID_SIZE - 1) \X (0 .. GRID_SIZE - 1))}]

Occupied(cells, parcelsState) ==
    Cardinality({j \in cells : parcelsState[j].occupant # NoAgent})

\* calculateCommunityScore that gives the outer ring the weight of the inner
calculateCommunityScoreFlat(parcelIndex, parcelsState) ==
    2 * Occupied(InnerRing[parcelsState[parcelIndex].id], parcelsState)
    + 2 * Occupied(OuterRing[parcelsState[parcelIndex].id], parcelsState)

\* in halves: +2 per occupied inner neighbour, +1 per occupied outer neighbour
calculateCommunityScore(parcelIndex, parcelsState) ==
    2 * Occupied(InnerRing[parcelsState[parcelIndex].id], parcelsState)
    + Occupied(OuterRing[parcelsState[parcelIndex].id], parcelsState)

updateAllCommunityScores(parcelsState) ==
    [i \in Indices |->
        [parcelsState[i] EXCEPT
            !.communityScore = calculateCommunityScore(i, parcelsState)]]

\* --------------------------------------------------------------- valuation
\* environmentScore * environmentMultiplier, in 1/Unit
EnvValue(parcel, envMult) == 2 * parcel.environmentScore * envMult

\* (environmentScore * environmentMultiplier) + (communityScore * communityMultiplier)
BaseValue(parcel, envMult, commMult) ==
    EnvValue(parcel, envMult) + parcel.communityScore * commMult

\* roundsVacant * 0.5, in 1/Unit
Decay(parcel) == parcel.roundsVacant * 10

\* VacantValue without Math.max: the decay is not floored
VacantValueNoFloor(parcel, envMult, commMult, decay) ==
    IF decay /\ parcel.roundsVacant > 0
    THEN BaseValue(parcel, envMult, commMult) - Decay(parcel)
    ELSE BaseValue(parcel, envMult, commMult)

\* value of an already-vacant lot
VacantValue(parcel, envMult, commMult, decay) ==
    IF decay /\ parcel.roundsVacant > 0
    THEN Max(EnvValue(parcel, envMult),
             BaseValue(parcel, envMult, commMult) - Decay(parcel))
    ELSE BaseValue(parcel, envMult, commMult)

\* JavaScript truthiness of parcel.leasePrice: null and 0 are falsy
Truthy(price) == price # Null /\ price # 0

getCurrentValue(parcel) ==
    IF parcel.occupant # NoAgent /\ Truthy(parcel.leasePrice)
    THEN parcel.leasePrice
    ELSE VacantValue(parcel, environmentMultiplier, communityMultiplier,
                     vacancyDecay)

\* ---------------------------------------------------------- sequence tools
Filter(seq, Test(_)) == SelectSeq(seq, Test)

\* Array.prototype.find on a sequence of agents: the first match, or NoValue
FindFirst(seq, Test(_), NoValue) ==
    LET hits == SelectSeq(seq, Test)
    IN  IF hits = <<>> THEN NoValue ELSE Head(hits)

\* Insert x behind every element of the descending sequence whose key is at
\* least x's key: Array.prototype.sort is stable.
RECURSIVE InsertDesc(_, _, _, _)
InsertDesc(sorted, x, xKey, keys) ==
    IF sorted = <<>> THEN <<x>>
    ELSE IF keys[Len(sorted)] >= xKey THEN Append(sorted, x)
    ELSE Append(InsertDesc(SubSeq(sorted, 1, Len(sorted) - 1), x, xKey, keys),
                sorted[Len(sorted)])

\* lotsForAuction left in insertion order
SortLotsForgotten(lots) == lots

\* lotsForAuction.sort((a, b) => b.currentValue - a.currentValue)
RECURSIVE SortLots(_)
SortLots(lots) ==
    IF lots = <<>> THEN <<>>
    ELSE LET front == SortLots(SubSeq(lots, 1, Len(lots) - 1))
             x == lots[Len(lots)]
         IN  InsertDesc(front, x, x.currentValue,
                        [k \in DOMAIN front |-> front[k].currentValue])

\* allAgents.sort((a, b) => b.wealth - a.wealth)
RECURSIVE SortAgents(_)
SortAgents(agents) ==
    IF agents = <<>> THEN <<>>
    ELSE LET front == SortAgents(SubSeq(agents, 1, Len(agents) - 1))
             x == agents[Len(agents)]
         IN  InsertDesc(front, x, x.wealth,
                        [k \in DOMAIN front |-> front[k].wealth])

\* ------------------------------------------------------------ pool agents
\* an agent of allAgents: the agent plus source and previousParcelIndex
\* (isDefender is set exactly when previousParcelIndex is)
NoPoolAgent == [id |-> NoId, wealth |-> Null, roundEntered |-> Null,
                leaseStart |-> Null, leaseLength |-> Null,
                source |-> "none", previousParcelIndex |-> Null]

Tagged(agent, source, previousParcelIndex) ==
    [id |-> agent.id, wealth |-> agent.wealth,
     roundEntered |-> agent.roundEntered,
     leaseStart |-> agent.leaseStart, leaseLength |-> agent.leaseLength,
     source |-> source, previousParcelIndex |-> previousParcelIndex]

\* const { source, previousParcelIndex, isDefender, ...agentClean } = agent
agentClean(agent) ==
    [id |-> agent.id, wealth |-> agent.wealth,
     roundEntered |-> agent.roundEntered,
     leaseStart |-> agent.leaseStart, leaseLength |-> agent.leaseLength]

\* a parcel event { round, type, details }
Event(r, type, agent, wealth, price, value, start, length, detail, other) ==
    [round |-> r, type |-> type, agent |-> agent, wealth |-> wealth,
     leasePrice |-> price, currentValue |-> value,
     leaseStart |-> start, leaseLength |-> length,
     detail |-> detail, other |-> other]

\* ------------------------------------------------- STEP 2: leases and lots
leaseExpires(occupant) == occupant.leaseStart + occupant.leaseLength

\* IsExpired one round early: the lease is auctioned in its last round
IsExpiredEarly(parcel, currentRound) ==
    /\ parcel.occupant # NoAgent
    /\ currentRound + 1 >= leaseExpires(parcel.occupant)

\* IsExpired with > for >=: the lease runs one round longer
IsExpiredLate(parcel, currentRound) ==
    /\ parcel.occupant # NoAgent
    /\ currentRound > leaseExpires(parcel.occupant)

IsExpired(parcel, currentRound) ==
    /\ parcel.occupant # NoAgent
    /\ currentRound >= leaseExpires(parcel.occupant)

\* indices of a set in ascending order
RECURSIVE Ascending(_)
Ascending(S) ==
    IF S = {} THEN <<>>
    ELSE LET m == CHOOSE x \in S : \A y \in S : x <= y
         IN  <<m>> \o Ascending(S \ {m})

\* first loop of STEP 2: the lots of the expired leases, by ascending index
ExpiredLots(wp, currentRound, envMult, commMult) ==
    LET idx == Ascending({i \in Indices : IsExpired(wp[i], currentRound)})
    IN  [k \in DOMAIN idx |->
            [index |-> idx[k],
             currentValue |-> BaseValue(wp[idx[k]], envMult, commMult),
             defender |-> wp[idx[k]].occupant]]

\* expiredLeaseAgents, in the same order
expiredLeaseAgents(wp, currentRound) ==
    LET idx == Ascending({i \in Indices : IsExpired(wp[i], currentRound)})
    IN  [k \in DOMAIN idx |-> Tagged(wp[idx[k]].occupant, "defender", idx[k])]

\* ClearExpired that forgets leasePrice: null
ClearExpiredKeepPrice(wp, currentRound, envMult, commMult) ==
    [i \in Indices |->
        IF IsExpired(wp[i], currentRound)
        THEN [wp[i] EXCEPT
                !.history = Append(@,
                    Event(currentRound, "lease_expired", wp[i].occupant.id,
                          wp[i].occupant.wealth, wp[i].leasePrice,
                          BaseValue(wp[i], envMult, commMult),
                          wp[i].occupant.leaseStart,
                          wp[i].occupant.leaseLength, "none", NoId)),
                !.occupant = NoAgent]
        ELSE wp[i]]

\* the parcels after the first loop: lease_expired logged, occupant cleared
ClearExpired(wp, currentRound, envMult, commMult) ==
    [i \in Indices |->
        IF IsExpired(wp[i], currentRound)
        THEN [wp[i] EXCEPT
                !.history = Append(@,
                    Event(currentRound, "lease_expired", wp[i].occupant.id,
                          wp[i].occupant.wealth, wp[i].leasePrice,
                          BaseValue(wp[i], envMult, commMult),
                          wp[i].occupant.leaseStart,
                          wp[i].occupant.leaseLength, "none", NoId)),
                !.occupant = NoAgent,
                !.leasePrice = Null]
        ELSE wp[i]]

\* VacantLots without the test for parcels already in lotsForAuction
VacantLotsAgain(wp, lots, envMult, commMult, decay) ==
    LET idx == Ascending({i \in Indices : wp[i].occupant = NoAgent})
    IN  [k \in DOMAIN idx |->
            [index |-> idx[k],
             currentValue |-> VacantValue(wp[idx[k]], envMult, commMult, decay),
             defender |-> NoAgent]]

\* second loop of STEP 2: vacant parcels not already in lotsForAuction
VacantLots(wp, lots, envMult, commMult, decay) ==
    LET idx == Ascending({i \in Indices :
                    /\ wp[i].occupant = NoAgent
                    /\ ~ \E k \in DOMAIN lots : lots[k].index = i})
    IN  [k \in DOMAIN idx |->
            [index |-> idx[k],
             currentValue |-> VacantValue(wp[idx[k]], envMult, commMult, decay),
             defender |-> NoAgent]]

\* lotsForAuction before sorting
lotsForAuction(wp, currentRound, envMult, commMult, decay) ==
    LET expired == ExpiredLots(wp, currentRound, envMult, commMult)
        cleared == ClearExpired(wp, currentRound, envMult, commMult)
    IN  expired \o VacantLots(cleared, expired, envMult, commMult, decay)

\* ------------------------------------------------- STEP 4: the bidder pool
alreadyHousedIds(wp, currentRound) ==
    {wp[i].occupant.id : i \in {j \in Indices :
        /\ wp[j].occupant # NoAgent
        /\ currentRound < leaseExpires(wp[j].occupant)}}

\* push the agents of seq not yet seen and not in housed, tagged with source
RECURSIVE Collect(_, _, _, _)
Collect(acc, seq, housed, source) ==
    IF seq = <<>> THEN acc
    ELSE LET a == Head(seq)
             seen == {acc[k].id : k \in DOMAIN acc}
         IN  Collect(IF a.id \notin seen /\ a.id \notin housed
                     THEN Append(acc, Tagged(a, source,
                                    IF source = "expired_lease"
                                    THEN a.previousParcelIndex ELSE Null))
                     ELSE acc,
                     Tail(seq), housed, source)

\* uniqueId without the round: timestamp, random part and loop index only
uniqueIdNoRound(nonce, currentRound, i) == <<nonce, 0, i>>

uniqueId(nonce, currentRound, i) == <<nonce, currentRound, i>>

\* the new immigrants: immigrant k (1-based) has loop index i = k - 1
Immigrants(wealths, nonces, currentRound) ==
    [k \in DOMAIN wealths |->
        [id |-> uniqueId(nonces[k], currentRound, k - 1),
         wealth |-> wealths[k],
         roundEntered |-> currentRound,
         leaseStart |-> Null, leaseLength |-> Null,
         source |-> "new_immigrant", previousParcelIndex |-> Null]]

\* allAgents without the agents carried over in the unhoused list
allAgentsNoCarry(cleared, expired, workingUnhoused, wealths, nonces, currentRound) ==
    Collect(<<>>, expired, alreadyHousedIds(cleared, currentRound),
            "expired_lease")
    \o Immigrants(wealths, nonces, currentRound)

\* allAgents before sorting; cleared is the grid after STEP 2
allAgents(cleared, expired, workingUnhoused, wealths, nonces, currentRound) ==
    LET housed == alreadyHousedIds(cleared, currentRound)
        defenders == Collect(<<>>, expired, housed, "expired_lease")
        carried == Collect(defenders,
                           [k \in DOMAIN workingUnhoused |->
                               Tagged(workingUnhoused[k], "unhoused", Null)],
                           housed, "unhoused")
    IN  carried \o Immigrants(wealths, nonces, currentRound)

\* ------------------------------------------------------ STEP 5: one auction
\* winner, leasePrice, wasContested and auctionDetails (type and other party)
Outcome(winner, price, contested, type, other) ==
    [winner |-> winner, leasePrice |-> price, wasContested |-> contested,
     type |-> type, other |-> other]

\* CurrentDefender without the demotion of a defender placed elsewhere
CurrentDefenderKept(lot, placedAgentIds) == lot.defender

\* if (defender && placedAgentIds.has(defender.id)) defender = null
CurrentDefender(lot, placedAgentIds) ==
    IF lot.defender # NoAgent /\ lot.defender.id \in placedAgentIds
    THEN NoAgent ELSE lot.defender

\* vacantAuction as a second-price auction without reserve: a sole claimant
\* pays nothing
vacantAuctionNoReserve(currentValue, eligibleAgents) ==
    IF Len(eligibleAgents) > 1
    THEN Outcome(eligibleAgents[1], eligibleAgents[2].wealth * Unit,
                 TRUE, "contested_vacant", eligibleAgents[2])
    ELSE Outcome(eligibleAgents[1], 0, FALSE, "vacant_claim", NoPoolAgent)

\* vacantAuction charging the runner-up's wealth plus one
vacantAuctionPlusOne(currentValue, eligibleAgents) ==
    IF Len(eligibleAgents) > 1
    THEN Outcome(eligibleAgents[1],
                 Max(currentValue, (eligibleAgents[2].wealth + 1) * Unit),
                 TRUE, "contested_vacant", eligibleAgents[2])
    ELSE Outcome(eligibleAgents[1], currentValue, FALSE, "vacant_claim",
                 NoPoolAgent)

\* if (!defender): vacant lot auction
vacantAuction(currentValue, eligibleAgents) ==
    IF Len(eligibleAgents) > 1
    THEN Outcome(eligibleAgents[1],
                 Max(currentValue, eligibleAgents[2].wealth * Unit),
                 TRUE, "contested_vacant", eligibleAgents[2])
    ELSE Outcome(eligibleAgents[1], currentValue, FALSE, "vacant_claim",
                 NoPoolAgent)

\* uncontestedRenewal charging the defender's whole wealth
uncontestedRenewalFullWealth(currentValue, keeper) ==
    Outcome(keeper, keeper.wealth * Unit, FALSE, "uncontested_renewal",
            NoPoolAgent)

\* else if (!challenger): uncontested renewal
uncontestedRenewal(currentValue, keeper) ==
    Outcome(keeper, currentValue, FALSE, "uncontested_renewal", NoPoolAgent)

\* challengerWins outbidding the challenger's own wealth instead of the
\* defender's
challengerWinsOwnWealth(currentValue, defender, challenger) ==
    Outcome(challenger, Max(currentValue, (challenger.wealth + 1) * Unit),
            TRUE, "challenger_wins", Tagged(defender, "none", Null))

\* challengerWins charging the defender's wealth without the + 1
challengerWinsNoIncrement(currentValue, defender, challenger) ==
    Outcome(challenger, Max(currentValue, defender.wealth * Unit),
            TRUE, "challenger_wins", Tagged(defender, "none", Null))

\* else if (challenger.wealth > defender.wealth)
challengerWins(currentValue, defender, challenger) ==
    Outcome(challenger, Max(currentValue, (defender.wealth + 1) * Unit),
            TRUE, "challenger_wins", Tagged(defender, "none", Null))

\* defenderWins charging the challenger's wealth without the + 1
defenderWinsNoIncrement(currentValue, keeper, defender, challenger) ==
    IF challenger.wealth = defender.wealth
    THEN Outcome(keeper, challenger.wealth * Unit, TRUE, "defender_wins_tie",
                 challenger)
    ELSE Outcome(keeper, Max(currentValue, challenger.wealth * Unit),
                 TRUE, "defender_wins", challenger)

\* else if (challenger.wealth === defender.wealth) ... else ...
defenderWins(currentValue, keeper, defender, challenger) ==
    IF challenger.wealth = defender.wealth
    THEN Outcome(keeper, challenger.wealth * Unit, TRUE, "defender_wins_tie",
                 challenger)
    ELSE Outcome(keeper, Max(currentValue, (challenger.wealth + 1) * Unit),
                 TRUE, "defender_wins", challenger)

\* Affords refusing the agent whose wealth equals the value
AffordsStrictly(a, currentValue) == a.wealth * Unit > currentValue

\* a.wealth >= currentValue, the wealth in whole units and the value in
\* 1/Unit
Affords(a, currentValue) == a.wealth * Unit >= currentValue

\* The outcome of one lot against the sorted pool, given the placed identities.
\* type "none" is a lot nobody can afford.
Resolve(lot, pool, placedAgentIds) ==
    LET currentValue == lot.currentValue
        defender == CurrentDefender(lot, placedAgentIds)
        found == IF defender # NoAgent
                 THEN FindFirst(pool, LAMBDA a : a.id = defender.id, NoPoolAgent)
                 ELSE NoPoolAgent
        defenderInPool == IF found # NoPoolAgent /\ found.id \in placedAgentIds
                          THEN NoPoolAgent ELSE found
        eligibleAgents == Filter(pool, LAMBDA a :
                              /\ a.id \notin placedAgentIds
                              /\ Affords(a, currentValue))
        challenger == FindFirst(eligibleAgents,
                          LAMBDA a : defender = NoAgent \/ a.id # defender.id,
                          NoPoolAgent)
        \* winner = defenderInPool || defender
        keeper == IF defenderInPool # NoPoolAgent THEN defenderInPool
                  ELSE Tagged(defender, "none", Null)
        o == IF eligibleAgents = <<>>
             THEN Outcome(NoPoolAgent, Null, FALSE, "none", NoPoolAgent)
             ELSE IF defender = NoAgent
             THEN vacantAuction(currentValue, eligibleAgents)
             ELSE IF challenger = NoPoolAgent
             THEN uncontestedRenewal(currentValue, keeper)
             ELSE IF challenger.wealth > defender.wealth
             THEN challengerWins(currentValue, defender, challenger)
             ELSE defenderWins(currentValue, keeper, defender, challenger)
    IN  [index |-> lot.index, currentValue |-> currentValue,
         lotDefender |-> lot.defender.id, defender |-> defender.id,
         defenderWealth |-> defender.wealth,
         eligible |-> eligibleAgents, challenger |-> challenger.id,
         winner |-> o.winner, leasePrice |-> o.leasePrice,
         wasContested |-> o.wasContested, type |-> o.type, other |-> o.other]

\* PricedOut testing the lot's recorded defender, demoted or not
PricedOutAnyDefender(wp, res, currentRound) ==
    IF res.lotDefender # NoId
    THEN [wp EXCEPT ![res.index].history = Append(@,
                Event(currentRound, "priced_out", res.lotDefender,
                      res.defenderWealth, Null, res.currentValue,
                      Null, Null,
                      "Defender could not afford new market rate", NoId))]
    ELSE wp

\* eligibleAgents.length === 0: the lot stays vacant; if (defender), the
\* defender is logged as priced out
PricedOut(wp, res, currentRound) ==
    IF res.defender # NoId
    THEN [wp EXCEPT ![res.index].history = Append(@,
                Event(currentRound, "priced_out", res.defender,
                      res.defenderWealth, Null, res.currentValue,
                      Null, Null,
                      "Defender could not afford new market rate", NoId))]
    ELSE wp

\* WonEvent logging the lot's value as the price paid
WonEventAtValue(res, currentRound, leaseLength) ==
    Event(currentRound,
          IF res.wasContested THEN "auction_won" ELSE "occupied",
          res.winner.id, res.winner.wealth, res.currentValue,
          res.currentValue, Null, leaseLength, res.type, res.other.id)

\* workingParcels[index].history.push({ round, type, details }) of a won lot
WonEvent(res, currentRound, leaseLength) ==
    Event(currentRound,
          IF res.wasContested THEN "auction_won" ELSE "occupied",
          res.winner.id, res.winner.wealth, res.leasePrice,
          res.currentValue, Null, leaseLength, res.type, res.other.id)

\* the grid after one lot: the event is logged and the winner placed
PlaceWinner(wp, res, currentRound, leaseLength) ==
    IF res.type = "none"
    THEN PricedOut(wp, res, currentRound)
    ELSE [i \in Indices |->
            IF i = res.index
            THEN [wp[i] EXCEPT
                    !.history = Append(@,
                        WonEvent(res, currentRound, leaseLength)),
                    !.occupant = [agentClean(res.winner) EXCEPT
                                    !.leaseStart = currentRound,
                                    !.leaseLength = leaseLength],
                    !.leasePrice = res.leasePrice,
                    !.roundsVacant = 0]
            \* SAFEGUARD: the winner is cleared from every other parcel
            ELSE IF wp[i].occupant # NoAgent
                    /\ wp[i].occupant.id = res.winner.id
            THEN [wp[i] EXCEPT !.occupant = NoAgent, !.leasePrice = Null]
            ELSE wp[i]]

\* for (const lot of lotsForAuction): the outcome of every lot in processing
\* order; an outcome depends on allAgents and on placedAgentIds only
RECURSIVE RunAuctions(_, _, _, _)
RunAuctions(results, lots, pool, placedAgentIds) ==
    IF lots = <<>> THEN results
    ELSE LET res == Resolve(Head(lots), pool, placedAgentIds)
         IN  RunAuctions(Append(results, res), Tail(lots), pool,
                         IF res.type # "none"
                         THEN placedAgentIds \cup {res.winner.id}
                         ELSE placedAgentIds)

\* the identities placed by the outcomes
Placed(results) ==
    {results[k].winner.id : k \in {j \in DOMAIN results :
                                        results[j].type # "none"}}

\* the lots flagged justOccupied
JustOccupied(results) ==
    {results[k].index : k \in {j \in DOMAIN results :
                                    results[j].type # "none"}}

\* workingParcels after the loop: the outcomes applied in order, the k-th
\* winner of the round getting the k-th lease length drawn
RECURSIVE PlaceAll(_, _, _, _)
PlaceAll(wp, results, currentRound, draws) ==
    IF results = <<>> THEN wp
    ELSE LET res == Head(results)
         IN  IF res.type = "none"
             THEN PlaceAll(PlaceWinner(wp, res, currentRound, Null),
                           Tail(results), currentRound, draws)
             ELSE PlaceAll(PlaceWinner(wp, res, currentRound, Head(draws)),
                           Tail(results), currentRound, Tail(draws))

\* ------------------------------------------------------------- STEP 6 to 8
\* newUnhoused that carries over only the agents that had no lot to defend
RECURSIVE newUnhousedNoDefenders(_, _, _)
newUnhousedNoDefenders(acc, pool, placedAgentIds) ==
    IF pool = <<>> THEN acc
    ELSE LET a == Head(pool)
         IN  newUnhousedNoDefenders(
                IF a.id \notin placedAgentIds
                   /\ a.source # "expired_lease"
                   /\ a.id \notin {acc[k].id : k \in DOMAIN acc}
                THEN Append(acc, agentClean(a)) ELSE acc,
                Tail(pool), placedAgentIds)

\* allAgents that were not placed, first occurrence of each identity
RECURSIVE newUnhoused(_, _, _)
newUnhoused(acc, pool, placedAgentIds) ==
    IF pool = <<>> THEN acc
    ELSE LET a == Head(pool)
         IN  newUnhoused(
                IF a.id \notin placedAgentIds
                   /\ a.id \notin {acc[k].id : k \in DOMAIN acc}
                THEN Append(acc, agentClean(a)) ELSE acc,
                Tail(pool), placedAgentIds)

\* updateVacancy without the test for an occupant: every lot not won this
\* round is counted
updateVacancyNotJustOccupied(wp, justOccupied) ==
    [i \in Indices |->
        IF i \notin justOccupied
        THEN [wp[i] EXCEPT !.roundsVacant = @ + 1,
                           !.totalRoundsVacant = @ + 1]
        ELSE wp[i]]

\* updateVacancy that forgets the cumulative counter
updateVacancyStreakOnly(wp, justOccupied) ==
    [i \in Indices |->
        IF wp[i].occupant = NoAgent /\ i \notin justOccupied
        THEN [wp[i] EXCEPT !.roundsVacant = @ + 1]
        ELSE wp[i]]

\* STEP 7: vacancy counters of the lots that remained vacant
updateVacancy(wp, justOccupied) ==
    [i \in Indices |->
        IF wp[i].occupant = NoAgent /\ i \notin justOccupied
        THEN [wp[i] EXCEPT !.roundsVacant = @ + 1,
                           !.totalRoundsVacant = @ + 1]
        ELSE wp[i]]

housedAgentIds(wp) ==
    {wp[i].occupant.id : i \in {j \in Indices : wp[j].occupant # NoAgent}}

\* FINAL SAFETY CHECK: drop the housed and the repeated identities
RECURSIVE finalUnhoused(_, _, _)
finalUnhoused(acc, agents, housed) ==
    IF agents = <<>> THEN acc
    ELSE LET a == Head(agents)
         IN  finalUnhoused(
                IF a.id \notin housed
                   /\ a.id \notin {acc[k].id : k \in DOMAIN acc}
                THEN Append(acc, a) ELSE acc,
                Tail(agents), housed)

\* Unplaced that carries the whole pool over, winners included
UnplacedWithWinners(pool, placedAgentIds, wp) ==
    [k \in DOMAIN pool |-> agentClean(pool[k])]

\* STEP 6 and the FINAL SAFETY CHECK together: the unhoused list the round
\* commits, given allAgents, placedAgentIds and the final grid
Unplaced(pool, placedAgentIds, wp) ==
    finalUnhoused(<<>>, newUnhoused(<<>>, pool, placedAgentIds),
                  housedAgentIds(wp))

\* ------------------------------------------------------------- the state
Snapshot(r, p, u) == [round |-> r, parcels |-> p, unhoused |-> u]

\* last: for a state committed by a live round, what the round did (scored:
\* the grid after STEP 1; lots and pool: lotsForAuction and allAgents after
\* sorting; results: the outcome of each lot in processing order); NoRound for
\* a state produced by any other handler
NoRound == [currentRound |-> Null, scored |-> initializeParcels,
            lots |-> <<>>, pool |-> <<>>, results |-> <<>>]

WealthCaps == (MaxWealthCap - 1) .. MaxWealthCap
Multipliers == {0, 5, 10}

Init ==
    /\ immigrationRate = 1
    /\ minLeaseLength = 1
    /\ maxLeaseLength = MaxLease
    /\ maxWealth = MaxWealthCap
    /\ vacancyDecay = FALSE
    /\ environmentMultiplier = 10
    /\ communityMultiplier = 10
    /\ round = 0
    /\ parcels = initializeParcels
    /\ unhoused = <<>>
    /\ history = <<>>
    /\ historyIndex = -1
    /\ configChanges = 0
    /\ last = NoRound

\* LeaseDraws without the + minLeaseLength
LeaseDrawsFromZero(lo, hi) == 0 .. (hi - lo)

\* Math.floor(Math.random() * (maxLeaseLength - minLeaseLength + 1)) + minLeaseLength
LeaseDraws(lo, hi) == IF hi >= lo THEN lo .. hi ELSE (hi + 1) .. lo

\* SaveToHistory slicing one snapshot too late: prev.slice(0, historyIndex + 2)
SaveToHistorySliceLate(hist, index, currentState) ==
    Append(IF index >= 0 /\ index + 2 <= Len(hist)
           THEN SubSeq(hist, 1, index + 2) ELSE hist,
           currentState)

\* SaveToHistory without the slice at the cursor
SaveToHistoryNoSlice(hist, index, currentState) == Append(hist, currentState)

\* setHistory(prev => [...(historyIndex >= 0 ? prev.slice(0, historyIndex + 1) : prev), currentState])
SaveToHistory(hist, index, currentState) ==
    Append(IF index >= 0 THEN SubSeq(hist, 1, index + 1) ELSE hist,
           currentState)

\* STEP 1 to STEP 4 and the two sorts: everything the auctions start from
Prepare(wealths, nonces) ==
    LET currentRound == round + 1
        scored == updateAllCommunityScores(parcels)
        unsorted == lotsForAuction(scored, currentRound, environmentMultiplier,
                                   communityMultiplier, vacancyDecay)
        cleared == ClearExpired(scored, currentRound, environmentMultiplier,
                                communityMultiplier)
        agents == allAgents(cleared, expiredLeaseAgents(scored, currentRound),
                            unhoused, wealths, nonces, currentRound)
    IN  [currentRound |-> currentRound, scored |-> scored, cleared |-> cleared,
         lots |-> SortLots(unsorted), pool |-> SortAgents(agents)]

\* STEP 5: the outcomes of the round's auctions
Auctions(prep) == RunAuctions(<<>>, prep.lots, prep.pool, {})

\* STEP 5 (placement) to the final safety check: the state the round commits
Commit(prep, results, draws) ==
    LET placed == PlaceAll(prep.cleared, results, prep.currentRound, draws)
        counted == updateVacancy(placed, JustOccupied(results))
        workingParcels == updateAllCommunityScores(counted)
    IN  [parcels |-> workingParcels,
         unhoused |-> Unplaced(prep.pool, Placed(results), workingParcels),
         round |-> prep.currentRound,
         trace |-> [currentRound |-> prep.currentRound,
                    scored |-> prep.scored, lots |-> prep.lots,
                    pool |-> prep.pool, results |-> results]]

\* sequences of n lease lengths
LeaseSeqs(n, lo, hi) == [1 .. n -> LeaseDraws(lo, hi)]

\* every state one live round can commit, over its random inputs
processRound(wealths, nonces) ==
    LET prep == Prepare(wealths, nonces)
        results == Auctions(prep)
    IN  {Commit(prep, results, draws) :
            draws \in LeaseSeqs(Cardinality(Placed(results)),
                                minLeaseLength, maxLeaseLength)}

\* the agents of the live state
Population == Len(unhoused) + Cardinality(housedAgentIds(parcels))

\* processRoundRef.current: one live round
Round ==
    /\ round < MaxRound
    /\ Population + immigrationRate <= MaxAgents
    /\ Len(SaveToHistory(history, historyIndex,
                         Snapshot(round, parcels, unhoused))) <= MaxHistory
    /\ \E wealths \in [1 .. immigrationRate -> 1 .. maxWealth],
          nonces \in [1 .. immigrationRate -> 0 .. MaxNonce] :
          \E new \in processRound(wealths, nonces) :
            /\ history' = SaveToHistory(history, historyIndex,
                                        Snapshot(round, parcels, unhoused))
            /\ historyIndex' = -1
            /\ parcels' = new.parcels
            /\ unhoused' = new.unhoused
            /\ round' = new.round
            /\ last' = new.trace

\* the play interval fires processRoundRef.current()
ProcessRound ==
    /\ Round
    /\ UNCHANGED <<config, configChanges>>

\* the displayed state with its history and cursor
Current ==
    [round |-> round, parcels |-> parcels, unhoused |-> unhoused,
     history |-> history, historyIndex |-> historyIndex]

\* setRound / setParcels / setUnhoused / setHistoryIndex of a target snapshot
Shown(targetState, targetIndex, hist) ==
    [round |-> targetState.round, parcels |-> targetState.parcels,
     unhoused |-> targetState.unhoused,
     history |-> hist, historyIndex |-> targetIndex]

\* the state becomes s
Display(s) ==
    /\ round' = s.round
    /\ parcels' = s.parcels
    /\ unhoused' = s.unhoused
    /\ history' = s.history
    /\ historyIndex' = s.historyIndex

\* stepBack that, from the live state, puts the cursor on the state it has
\* just saved
stepBackCursorOnSaved(s) ==
    IF s.history = <<>> THEN s
    ELSE IF s.historyIndex = -1
    THEN Shown(s.history[Len(s.history)], Len(s.history),
               Append(s.history, Snapshot(s.round, s.parcels, s.unhoused)))
    ELSE IF s.historyIndex > 0
    THEN Shown(s.history[s.historyIndex], s.historyIndex - 1, s.history)
    ELSE s

\* stepBack that, further back in history, takes the snapshot at the cursor
\* instead of the one before it
stepBackSameSnapshot(s) ==
    IF s.history = <<>> THEN s
    ELSE IF s.historyIndex = -1
    THEN Shown(s.history[Len(s.history)], Len(s.history) - 1,
               Append(s.history, Snapshot(s.round, s.parcels, s.unhoused)))
    ELSE IF s.historyIndex > 0
    THEN Shown(s.history[s.historyIndex + 1], s.historyIndex - 1, s.history)
    ELSE s

\* stepBack that saves the live state over the last snapshot
stepBackOverwrite(s) ==
    IF s.history = <<>> THEN s
    ELSE IF s.historyIndex = -1
    THEN Shown(s.history[Len(s.history)], Len(s.history) - 1,
               [s.history EXCEPT ![Len(s.history)] =
                    Snapshot(s.round, s.parcels, s.unhoused)])
    ELSE IF s.historyIndex > 0
    THEN Shown(s.history[s.historyIndex], s.historyIndex - 1, s.history)
    ELSE s

\* stepBack that leaves the live state without saving it first
stepBackNoSave(s) ==
    IF s.history = <<>> THEN s
    ELSE IF s.historyIndex = -1
    THEN Shown(s.history[Len(s.history)], Len(s.history) - 1, s.history)
    ELSE IF s.historyIndex > 0
    THEN Shown(s.history[s.historyIndex], s.historyIndex - 1, s.history)
    ELSE s

\* what handleStepBack makes of state s: from the live state, currentState
\* is saved and the last snapshot stored before it is shown
stepBack(s) ==
    IF s.history = <<>> THEN s
    ELSE IF s.historyIndex = -1
    THEN Shown(s.history[Len(s.history)], Len(s.history) - 1,
               Append(s.history, Snapshot(s.round, s.parcels, s.unhoused)))
    ELSE IF s.historyIndex > 0
    THEN Shown(s.history[s.historyIndex], s.historyIndex - 1, s.history)
    ELSE s

handleStepBack ==
    /\ last' = NoRound
    /\ UNCHANGED <<config, configChanges>>
    /\ (history # <<>> /\ historyIndex = -1) => Len(history) < MaxHistory
    /\ Display(stepBack(Current))

\* historyIndex >= 0 && historyIndex < history.length - 1
inHistory(s) == s.historyIndex >= 0 /\ s.historyIndex < Len(s.history) - 1

\* stepForward that takes the snapshot at the cursor instead of the one
\* after it
stepForwardSameSnapshot(s) ==
    Shown(s.history[s.historyIndex + 1], s.historyIndex + 1, s.history)

\* what handleStepForward makes of a state s in history: the next snapshot
stepForward(s) ==
    Shown(s.history[s.historyIndex + 2], s.historyIndex + 1, s.history)

handleStepForward ==
    /\ UNCHANGED <<config, configChanges>>
    /\ IF inHistory(Current)
       THEN /\ Display(stepForward(Current))
            /\ last' = NoRound
       ELSE Round

handleReset ==
    /\ round' = 0
    /\ parcels' = initializeParcels
    /\ unhoused' = <<>>
    /\ history' = <<>>
    /\ historyIndex' = -1
    /\ last' = NoRound
    /\ UNCHANGED <<config, configChanges>>

\* ------------------------------------------------------ the configuration
Configure ==
    /\ configChanges < MaxConfigChanges
    /\ round <= ConfigureUntilRound
    /\ configChanges' = configChanges + 1
    /\ last' = NoRound
    /\ UNCHANGED sim

setImmigrationRate ==
    /\ Configure
    /\ \E val \in 1 .. MaxImmigration : immigrationRate' = val
    /\ UNCHANGED <<minLeaseLength, maxLeaseLength, maxWealth, vacancyDecay,
                   environmentMultiplier, communityMultiplier>>

\* minLeaseInput leaving the maximum where it is
minLeaseInputAlone(val) ==
    /\ minLeaseLength' = val
    /\ UNCHANGED maxLeaseLength

\* setMinLeaseLength(val); if (val > maxLeaseLength) setMaxLeaseLength(val)
minLeaseInput(val) ==
    /\ minLeaseLength' = val
    /\ maxLeaseLength' = IF val > maxLeaseLength THEN val
                         ELSE maxLeaseLength

\* setMaxLeaseLength(val); if (val < minLeaseLength) setMinLeaseLength(val)
maxLeaseInput(val) ==
    /\ maxLeaseLength' = val
    /\ minLeaseLength' = IF val < minLeaseLength THEN val
                         ELSE minLeaseLength

setMinLeaseLength ==
    /\ Configure
    /\ \E val \in 1 .. MaxLease : minLeaseInput(val)
    /\ UNCHANGED <<immigrationRate, maxWealth, vacancyDecay,
                   environmentMultiplier, communityMultiplier>>

setMaxLeaseLength ==
    /\ Configure
    /\ \E val \in 1 .. MaxLease : maxLeaseInput(val)
    /\ UNCHANGED <<immigrationRate, maxWealth, vacancyDecay,
                   environmentMultiplier, communityMultiplier>>

setMaxWealth ==
    /\ Configure
    /\ \E val \in WealthCaps : maxWealth' = val
    /\ UNCHANGED <<immigrationRate, minLeaseLength, maxLeaseLength,
                   vacancyDecay, environmentMultiplier, communityMultiplier>>

setVacancyDecay ==
    /\ Configure
    /\ \E checked \in BOOLEAN : vacancyDecay' = checked
    /\ UNCHANGED <<immigrationRate, minLeaseLength, maxLeaseLength, maxWealth,
                   environmentMultiplier, communityMultiplier>>

setEnvironmentMultiplier ==
    /\ Configure
    /\ \E val \in Multipliers : environmentMultiplier' = val
    /\ UNCHANGED <<immigrationRate, minLeaseLength, maxLeaseLength, maxWealth,
                   vacancyDecay, communityMultiplier>>

setCommunityMultiplier ==
    /\ Configure
    /\ \E val \in Multipliers : communityMultiplier' = val
    /\ UNCHANGED <<immigrationRate, minLeaseLength, maxLeaseLength, maxWealth,
                   vacancyDecay, environmentMultiplier>>

Next ==
    \/ ProcessRound
    \/ handleStepBack
    \/ handleStepForward
    \/ handleReset
    \/ setImmigrationRate
    \/ setMinLeaseLength
    \/ setMaxLeaseLength
    \/ setMaxWealth
    \/ setVacancyDecay
    \/ setEnvironmentMultiplier
    \/ setCommunityMultiplier

Spec == Init /\ [][Next]_vars

\* The simulation with the vacancy-decay box in either position before the
\* first round.
InitDecay ==
    /\ immigrationRate = 1
    /\ minLeaseLength = 1
    /\ maxLeaseLength = MaxLease
    /\ maxWealth = MaxWealthCap
    /\ vacancyDecay \in BOOLEAN
    /\ environmentMultiplier = 10
    /\ communityMultiplier = 10
    /\ round = 0
    /\ parcels = initializeParcels
    /\ unhoused = <<>>
    /\ history = <<>>
    /\ historyIndex = -1
    /\ configChanges = 0
    /\ last = NoRound

SpecDecay == InitDecay /\ [][Next]_vars

\* The simulation with the maximum-lease slider below the top of its range
\* before the first round (as the default, 10 of 25, is).
InitLease ==
    /\ immigrationRate = 1
    /\ minLeaseLength = 1
    /\ maxLeaseLength = 1
    /\ maxWealth = MaxWealthCap
    /\ vacancyDecay = FALSE
    /\ environmentMultiplier = 10
    /\ communityMultiplier = 10
    /\ round = 0
    /\ parcels = initializeParcels
    /\ unhoused = <<>>
    /\ history = <<>>
    /\ historyIndex = -1
    /\ configChanges = 0
    /\ last = NoRound

SpecLease == InitLease /\ [][Next]_vars

\* ------------------------------------------------- the scenario presets
\* The settings of the simulation on their own, with the values of the
\* source: the lease sliders over their whole range and the scenario presets,
\* from the default settings, with no round processed. Multipliers are in
\* tenths.
LeaseSliderMax == 25

scenarios ==
    << [id |-> "balanced", immigrationRate |-> 10, minLeaseLength |-> 5,
        maxLeaseLength |-> 15, maxWealth |-> 26, vacancyDecay |-> TRUE,
        environmentMultiplier |-> 10, communityMultiplier |-> 10],
       [id |-> "inequality", immigrationRate |-> 10, minLeaseLength |-> 1,
        maxLeaseLength |-> 25, maxWealth |-> 50, vacancyDecay |-> FALSE,
        environmentMultiplier |-> 20, communityMultiplier |-> 20],
       [id |-> "stable-community", immigrationRate |-> 5, minLeaseLength |-> 15,
        maxLeaseLength |-> 25, maxWealth |-> 25, vacancyDecay |-> TRUE,
        environmentMultiplier |-> 10, communityMultiplier |-> 10],
       [id |-> "high-churn", immigrationRate |-> 15, minLeaseLength |-> 1,
        maxLeaseLength |-> 3, maxWealth |-> 40, vacancyDecay |-> FALSE,
        environmentMultiplier |-> 15, communityMultiplier |-> 15],
       [id |-> "distinct-neighbourhoods", immigrationRate |-> 10,
        minLeaseLength |-> 1, maxLeaseLength |-> 10, maxWealth |-> 30,
        vacancyDecay |-> TRUE, environmentMultiplier |-> 18,
        communityMultiplier |-> 2],
       [id |-> "declining-city", immigrationRate |-> 3, minLeaseLength |-> 5,
        maxLeaseLength |-> 15, maxWealth |-> 20, vacancyDecay |-> TRUE,
        environmentMultiplier |-> 5, communityMultiplier |-> 20] >>

\* scenario.settings.x || 1.0: a multiplier of 0 is falsy
OrDefault(multiplier) == IF multiplier = 0 THEN 10 ELSE multiplier

applyScenario(scenario) ==
    /\ round' = 0
    /\ parcels' = initializeParcels
    /\ unhoused' = <<>>
    /\ history' = <<>>
    /\ historyIndex' = -1
    /\ immigrationRate' = scenario.immigrationRate
    /\ minLeaseLength' = scenario.minLeaseLength
    /\ maxLeaseLength' = scenario.maxLeaseLength
    /\ maxWealth' = scenario.maxWealth
    /\ vacancyDecay' = scenario.vacancyDecay
    /\ environmentMultiplier' = OrDefault(scenario.environmentMultiplier)
    /\ communityMultiplier' = OrDefault(scenario.communityMultiplier)
    /\ last' = NoRound
    /\ UNCHANGED configChanges

\* a click on one of the scenario cards
ApplyScenario == \E n \in DOMAIN scenarios : applyScenario(scenarios[n])

\* the minimum-lease slider, anywhere in its range
MinLeaseSlider ==
    /\ \E val \in 1 .. LeaseSliderMax : minLeaseInput(val)
    /\ last' = NoRound
    /\ UNCHANGED <<immigrationRate, maxWealth, vacancyDecay,
                   environmentMultiplier, communityMultiplier, sim,
                   configChanges>>

\* the maximum-lease slider, anywhere in its range
MaxLeaseSlider ==
    /\ \E val \in 1 .. LeaseSliderMax : maxLeaseInput(val)
    /\ last' = NoRound
    /\ UNCHANGED <<immigrationRate, maxWealth, vacancyDecay,
                   environmentMultiplier, communityMultiplier, sim,
                   configChanges>>

\* the default settings of the source
InitSettings ==
    /\ immigrationRate = 5
    /\ minLeaseLength = 1
    /\ maxLeaseLength = 10
    /\ maxWealth = 26
    /\ vacancyDecay = FALSE
    /\ environmentMultiplier = 10
    /\ communityMultiplier = 10
    /\ round = 0
    /\ parcels = initializeParcels
    /\ unhoused = <<>>
    /\ history = <<>>
    /\ historyIndex = -1
    /\ configChanges = 0
    /\ last = NoRound

NextSettings ==
    \/ ApplyScenario
    \/ MinLeaseSlider
    \/ MaxLeaseSlider

SpecSettings == InitSettings /\ [][NextSettings]_vars

\* ------------------------------------------- the end of a round on its own
\* STEP 8, the FINAL SAFETY CHECK and the state update, applied to a working
\* state given from outside: until the round has completed (last.currentRound
\* is Null), parcels and unhoused hold workingParcels and newUnhoused as the
\* round reaches STEP 8. The working states include those with one identity
\* on two parcels, or on a parcel and in newUnhoused, which the check is
\* written for.
CheckedIds == {<<0, 1, 0>>, <<0, 1, 1>>, <<0, 1, 2>>}

\* an agent of round 1 as STEP 6 leaves it, and as the placement leaves it
Unhoused1(id) ==
    [id |-> id, wealth |-> 1, roundEntered |-> 1,
     leaseStart |-> Null, leaseLength |-> Null]

Housed1(parcel, id) ==
    IF id = NoId THEN parcel
    ELSE [parcel EXCEPT
            !.occupant = [Unhoused1(id) EXCEPT !.leaseStart = 1,
                                               !.leaseLength = 1],
            !.leasePrice = Unit]

WorkingGrids ==
    {[initializeParcels EXCEPT ![0] = Housed1(@, a), ![3] = Housed1(@, b)] :
        a, b \in CheckedIds \cup {NoId}}

NewUnhousedLists ==
    {<<>>} \cup {<<Unhoused1(a)>> : a \in CheckedIds}
           \cup {<<Unhoused1(a), Unhoused1(b)>> : a, b \in CheckedIds}

InitFinalCheck ==
    /\ immigrationRate = 1
    /\ minLeaseLength = 1
    /\ maxLeaseLength = MaxLease
    /\ maxWealth = MaxWealthCap
    /\ vacancyDecay = FALSE
    /\ environmentMultiplier = 10
    /\ communityMultiplier = 10
    /\ round = 0
    /\ parcels \in WorkingGrids
    /\ unhoused \in NewUnhousedLists
    /\ history = <<Snapshot(0, initializeParcels, <<>>)>>
    /\ historyIndex = -1
    /\ configChanges = 0
    /\ last = NoRound

\* lines 544 to 573: what the round commits from the working state
CompleteRound ==
    /\ last.currentRound = Null
    /\ parcels' = updateAllCommunityScores(parcels)
    /\ unhoused' = finalUnhoused(<<>>, unhoused, housedAgentIds(parcels'))
    /\ round' = round + 1
    /\ last' = [NoRound EXCEPT !.currentRound = round + 1]
    /\ UNCHANGED <<config, configChanges, history, historyIndex>>

SpecFinalCheck == InitFinalCheck /\ [][CompleteRound]_vars

\* ================================================================ claims
\* The state was committed by a live round, whose record is last.
RoundCommitted == last.currentRound # Null

\* the identities that won a lot before the k-th lot of the round was resolved
WonBefore(k) ==
    {last.results[j].winner.id :
        j \in {m \in 1 .. (k - 1) : last.results[m].type # "none"}}

\* the parcels holding an occupant, and the identities on them, in a grid
OccupiedIn(grid) == {i \in Indices : grid[i].occupant # NoAgent}

\* ----------------------------------------------------------------------- C1
\* C1: in every reachable state (live rounds, step-back, step-forward, reset)
\* each agent identity occurs at most once over all parcel occupants and the
\* unhoused list: not on two parcels, not both housed and unhoused, not twice
\* in the unhoused list.
C1_IdentityOccursOnce ==
    /\ \A i, j \in OccupiedIn(parcels) :
            i # j => parcels[i].occupant.id # parcels[j].occupant.id
    /\ \A k \in DOMAIN unhoused : \A i \in OccupiedIn(parcels) :
            unhoused[k].id # parcels[i].occupant.id
    /\ \A k, m \in DOMAIN unhoused : k # m => unhoused[k].id # unhoused[m].id

\* stepping back and forward again shows a round that left one agent housed
\* and another unhoused
C1_Witness ==
    /\ historyIndex > 0
    /\ historyIndex = Len(history) - 1
    /\ OccupiedIn(parcels) # {}
    /\ unhoused # <<>>

\* ----------------------------------------------------------------------- C2
\* C2: in every reachable state, a parcel has a lease price exactly when it
\* has an occupant.
C2_PriceIffOccupant ==
    \A i \in Indices :
        (parcels[i].leasePrice # Null) <=> (parcels[i].occupant # NoAgent)

\* a lease has expired and its lot stayed empty, next to an occupied parcel
C2_Witness ==
    /\ RoundCommitted
    /\ \E i \in Indices :
        /\ last.scored[i].occupant # NoAgent
        /\ parcels[i].occupant = NoAgent
    /\ OccupiedIn(parcels) # {}

\* ----------------------------------------------------------------------- C3
\* the parcels whose lease has not expired in the round just processed
ActiveIn(grid, currentRound) ==
    {i \in OccupiedIn(grid) :
        currentRound < grid[i].occupant.leaseStart
                       + grid[i].occupant.leaseLength}

\* C3: a round leaves every parcel whose lease has not expired untouched
\* (occupant with its leaseStart and leaseLength, and leasePrice), and that
\* agent is not in the bidder pool and wins no lot.
C3_ActiveLeaseUntouched ==
    RoundCommitted =>
        \A i \in ActiveIn(last.scored, last.currentRound) :
            /\ parcels[i].occupant = last.scored[i].occupant
            /\ parcels[i].leasePrice = last.scored[i].leasePrice
            /\ \A k \in DOMAIN last.pool :
                    last.pool[k].id # last.scored[i].occupant.id
            /\ \A k \in DOMAIN last.results :
                    last.results[k].winner.id # last.scored[i].occupant.id

\* a round with an active lease and an auction won by somebody else
C3_Witness ==
    /\ RoundCommitted
    /\ ActiveIn(last.scored, last.currentRound) # {}
    /\ \E k \in DOMAIN last.results : last.results[k].type # "none"

\* ----------------------------------------------------------------------- C4
\* C4: a lease is expired exactly when currentRound >= leaseStart +
\* leaseLength: in a round, an occupied parcel is put to auction exactly when
\* that holds, so every occupant of every state has
\* leaseStart <= round < leaseStart + leaseLength.
C4_ExpiredExactlyAtEnd ==
    /\ \A i \in OccupiedIn(parcels) :
        /\ parcels[i].occupant.leaseStart <= round
        /\ round < parcels[i].occupant.leaseStart
                   + parcels[i].occupant.leaseLength
    /\ RoundCommitted =>
        \A i \in OccupiedIn(last.scored) :
            (\E k \in DOMAIN last.lots : last.lots[k].index = i)
            <=> (last.currentRound >= last.scored[i].occupant.leaseStart
                                      + last.scored[i].occupant.leaseLength)

\* a lease of length 2 won in round 1 is auctioned in round 3
C4_Witness ==
    /\ RoundCommitted
    /\ last.currentRound = 3
    /\ \E k \in DOMAIN last.lots :
        /\ last.lots[k].defender # NoAgent
        /\ last.lots[k].defender.leaseStart = 1
        /\ last.lots[k].defender.leaseLength = 2

\* ----------------------------------------------------------------------- C5
\* C5: the lot pool of a round holds exactly the parcels without an active
\* lease, each once: a parcel whose lease expired this round has its former
\* occupant as defender (and is cleared: if nobody wins it, it stays without
\* occupant and lease price), an already vacant parcel has no defender.
C5_LotPool ==
    RoundCommitted =>
        /\ {last.lots[k].index : k \in DOMAIN last.lots}
              = Indices \ ActiveIn(last.scored, last.currentRound)
        /\ \A k, m \in DOMAIN last.lots :
              k # m => last.lots[k].index # last.lots[m].index
        /\ \A k \in DOMAIN last.lots :
              last.lots[k].defender = last.scored[last.lots[k].index].occupant
        /\ \A k \in DOMAIN last.results :
              last.results[k].type = "none" =>
                /\ parcels[last.results[k].index].occupant = NoAgent
                /\ parcels[last.results[k].index].leasePrice = Null

\* a round with an expired lease, a vacant parcel and an active lease
C5_Witness ==
    /\ RoundCommitted
    /\ \E k \in DOMAIN last.lots : last.lots[k].defender # NoAgent
    /\ \E k \in DOMAIN last.lots : last.lots[k].defender = NoAgent
    /\ ActiveIn(last.scored, last.currentRound) # {}

\* ----------------------------------------------------------------------- C6
\* the environment part and the market value of a parcel at round start, in
\* 1/Unit, under the weights in force
EnvPart(p) == 2 * p.environmentScore * environmentMultiplier

MarketValue(p) == EnvPart(p) + p.communityScore * communityMultiplier

\* C6: every lot's current value is environmentScore * envWeight +
\* communityScore * commWeight on the round-start community score, except that
\* with vacancy decay enabled and a positive vacancy streak it is
\* max(environmentScore * envWeight, marketValue - 0.5 * streak), which is
\* never below the environment part.
C6_LotValue ==
    RoundCommitted =>
        \A k \in DOMAIN last.lots :
            LET p == last.scored[last.lots[k].index]
                v == last.lots[k].currentValue
            IN  IF vacancyDecay /\ p.roundsVacant > 0
                THEN /\ v = Max(EnvPart(p), MarketValue(p) - 10 * p.roundsVacant)
                     /\ v >= EnvPart(p)
                ELSE v = MarketValue(p)

\* a decayed lot whose market value less the decay is below its environment
\* part, next to an expired lot
C6_Witness ==
    /\ RoundCommitted
    /\ vacancyDecay
    /\ \E k \in DOMAIN last.lots :
        LET p == last.scored[last.lots[k].index]
        IN  /\ p.roundsVacant > 0
            /\ MarketValue(p) > EnvPart(p)
            /\ MarketValue(p) - 10 * p.roundsVacant < EnvPart(p)
    /\ \E k \in DOMAIN last.lots : last.lots[k].defender # NoAgent

\* ----------------------------------------------------------------------- C7
\* C7: the lots of a round are resolved in descending current-value order: no
\* lot is resolved after a lot of strictly lower current value.
C7_DescendingValue ==
    RoundCommitted =>
        \A k, m \in DOMAIN last.results :
            k < m => last.results[k].currentValue >= last.results[m].currentValue

\* a round whose lots have different values, the cheaper vacant lot having
\* the smaller parcel index
C7_Witness ==
    /\ RoundCommitted
    /\ \E k, m \in DOMAIN last.results :
        /\ k < m
        /\ last.results[k].currentValue > last.results[m].currentValue
        /\ last.results[k].index > last.results[m].index
        /\ last.results[k].type # "none"

\* ----------------------------------------------------------------------- C8
\* C8: lots of equal current value are resolved in ascending parcel-index
\* order, whether they come from an expired lease or were already vacant.
C8_TiesByParcelIndex ==
    RoundCommitted =>
        \A k, m \in DOMAIN last.results :
            (k < m /\ last.results[k].currentValue = last.results[m].currentValue)
                => last.results[k].index < last.results[m].index

\* ----------------------------------------------------------------------- C9
\* the defender a lot still has when it is resolved as the k-th of the round
DefenderAt(k) ==
    IF last.lots[k].defender # NoAgent
       /\ last.lots[k].defender.id \notin WonBefore(k)
    THEN last.lots[k].defender.id ELSE NoId

\* the unplaced bidders that can afford the k-th lot
EligibleAt(k) ==
    {a \in {last.pool[j] : j \in DOMAIN last.pool} :
        /\ a.id \notin WonBefore(k)
        /\ a.wealth * Unit >= last.lots[k].currentValue}

\* id ordering of the identity strings (field by field)
IdLess(a, b) ==
    \/ a[1] < b[1]
    \/ a[1] = b[1] /\ a[2] < b[2]
    \/ a[1] = b[1] /\ a[2] = b[2] /\ a[3] < b[3]

\* the smallest identity among the wealthiest agents of a non-empty set
FirstByWealthThenId(agents) ==
    LET top == {a \in agents : \A b \in agents : b.wealth <= a.wealth}
    IN  (CHOOSE a \in top : \A b \in top : a.id = b.id \/ IdLess(a.id, b.id)).id

\* C9: bidders of equal wealth are ranked by ascending identity: among the
\* eligible non-defender agents of a lot that tie for the highest wealth, the
\* smallest identity is the winner (lot without defender) or the challenger
\* (lot with defender), and on a lot without defender the next one is the
\* runner-up.
C9_TiesByIdentity ==
    RoundCommitted =>
        \A k \in DOMAIN last.results :
            LET others == {a \in EligibleAt(k) : a.id # DefenderAt(k)}
                first == FirstByWealthThenId(others)
                rest == {a \in others : a.id # first}
            IN  others # {} =>
                    IF DefenderAt(k) # NoId
                    THEN last.results[k].challenger = first
                    ELSE /\ last.results[k].winner.id = first
                         /\ rest # {} =>
                              last.results[k].other.id = FirstByWealthThenId(rest)

\* ---------------------------------------------------------------------- C10
\* the types of the events a round appended to the log of parcel i
AppendedTo(i) ==
    {parcels[i].history[n].type :
        n \in (Len(last.scored[i].history) + 1) .. Len(parcels[i].history)}

\* C10: a lot with no eligible agent (no unplaced bidder with wealth >= its
\* current value) leaves its parcel without occupant at the end of the round,
\* and a priced_out event is appended to the parcel's log exactly when the
\* lot still had a defender when it was resolved.
C10_NobodyEligible ==
    RoundCommitted =>
        \A k \in DOMAIN last.lots :
            EligibleAt(k) = {} =>
                /\ parcels[last.lots[k].index].occupant = NoAgent
                /\ ("priced_out" \in AppendedTo(last.lots[k].index))
                        <=> (DefenderAt(k) # NoId)

\* one round prices a defender out of its lot, and leaves unaffordable a lot
\* that never had a defender
C10_Witness ==
    /\ RoundCommitted
    /\ \E k \in DOMAIN last.lots :
        EligibleAt(k) = {} /\ DefenderAt(k) # NoId
    /\ \E k \in DOMAIN last.lots :
        EligibleAt(k) = {} /\ last.lots[k].defender = NoAgent

\* ---------------------------------------------------------------------- C11
\* the highest wealth in a non-empty set of agents
TopWealth(agents) ==
    CHOOSE w \in {a.wealth : a \in agents} : \A a \in agents : a.wealth <= w

\* the eligible agents of the k-th lot other than its defender at resolution
OthersAt(k) == {a \in EligibleAt(k) : a.id # DefenderAt(k)}

\* the parcel of the k-th lot as the round committed it
Won(k) == parcels[last.lots[k].index]

C12_UncontestedRenewal ==
    RoundCommitted =>
        \A k \in DOMAIN last.lots :
            (/\ DefenderAt(k) # NoId
             /\ EligibleAt(k) # {}
             /\ OthersAt(k) = {}) =>
                /\ Won(k).occupant.id = DefenderAt(k)
                /\ Won(k).leasePrice = last.lots[k].currentValue

\* a renewal at a value that differs from the price locked before and from
\* the defender's wealth
C12_Witness ==
    /\ RoundCommitted
    /\ \E k \in DOMAIN last.lots :
        /\ DefenderAt(k) # NoId
        /\ EligibleAt(k) # {}
        /\ OthersAt(k) = {}
        /\ last.scored[last.lots[k].index].leasePrice
              # last.lots[k].currentValue
        /\ last.lots[k].defender.wealth * Unit # last.lots[k].currentValue

\* ---------------------------------------------------------------------- C13
\* C13: on a lot with a defender and a challenger (the wealthiest eligible
\* agent other than the defender) strictly wealthier than the defender, the
\* challenger wins and pays max(current value, defender's wealth + 1), also
\* when the defender cannot afford the lot.
C13_ChallengerWins ==
    RoundCommitted =>
        \A k \in DOMAIN last.lots :
            (/\ DefenderAt(k) # NoId
             /\ OthersAt(k) # {}
             /\ TopWealth(OthersAt(k)) > last.lots[k].defender.wealth) =>
                /\ \E a \in OthersAt(k) : a.id = Won(k).occupant.id
                /\ Won(k).occupant.wealth = TopWealth(OthersAt(k))
                /\ Won(k).leasePrice =
                      Max(last.lots[k].currentValue,
                          (last.lots[k].defender.wealth + 1) * Unit)

\* a challenger out-bids a defender that could afford the lot, at a price
\* above the lot's value
C13_Witness ==
    /\ RoundCommitted
    /\ \E k \in DOMAIN last.lots :
        /\ DefenderAt(k) # NoId
        /\ OthersAt(k) # {}
        /\ TopWealth(OthersAt(k)) > last.lots[k].defender.wealth
        /\ (last.lots[k].defender.wealth + 1) * Unit
              > last.lots[k].currentValue

\* ---------------------------------------------------------------------- C14
\* C14: on a lot with a defender and a challenger whose wealth is at most the
\* defender's, the defender wins: on equal wealth the price is the
\* challenger's wealth, and when the defender is strictly wealthier it is
\* max(current value, challenger's wealth + 1).
C14_DefenderWins ==
    RoundCommitted =>
        \A k \in DOMAIN last.lots :
            (/\ DefenderAt(k) # NoId
             /\ OthersAt(k) # {}
             /\ TopWealth(OthersAt(k)) <= last.lots[k].defender.wealth) =>
                /\ Won(k).occupant.id = DefenderAt(k)
                /\ Won(k).leasePrice =
                      IF TopWealth(OthersAt(k)) = last.lots[k].defender.wealth
                      THEN TopWealth(OthersAt(k)) * Unit
                      ELSE Max(last.lots[k].currentValue,
                               (TopWealth(OthersAt(k)) + 1) * Unit)

\* a strictly wealthier defender keeps its lot against an eligible challenger
\* at a price above the lot's value (the tie happens in other rounds)
C14_Witness ==
    /\ RoundCommitted
    /\ \E k \in DOMAIN last.lots :
        /\ DefenderAt(k) # NoId
        /\ OthersAt(k) # {}
        /\ TopWealth(OthersAt(k)) < last.lots[k].defender.wealth
        /\ (TopWealth(OthersAt(k)) + 1) * Unit > last.lots[k].currentValue

\* ---------------------------------------------------------------------- C15
\* the lots whose recorded defender won another lot earlier in the round
DemotedLots ==
    {k \in DOMAIN last.lots :
        /\ last.lots[k].defender # NoAgent
        /\ last.lots[k].defender.id \in WonBefore(k)}

\* C15: a lot whose recorded defender has already won a different lot in the
\* round is resolved by the no-defender rules (the wealthiest eligible agent
\* wins at vacant-lot pricing, no priced_out event, the former defender
\* cannot win it), and no agent wins more than one lot in a round.
C15_DemotedDefender ==
    RoundCommitted =>
        /\ \A k \in DemotedLots :
            LET E == EligibleAt(k)
                rest == {a \in E : a.id # Won(k).occupant.id}
            IN  /\ "priced_out" \notin AppendedTo(last.lots[k].index)
                /\ Won(k).occupant.id # last.lots[k].defender.id
                /\ IF E = {}
                   THEN Won(k).occupant = NoAgent
                   ELSE /\ \E a \in E : a.id = Won(k).occupant.id
                        /\ Won(k).occupant.wealth = TopWealth(E)
                        /\ Won(k).leasePrice =
                              IF rest = {} THEN last.lots[k].currentValue
                              ELSE Max(last.lots[k].currentValue,
                                       TopWealth(rest) * Unit)
        /\ \A k, m \in DOMAIN last.results :
            (k # m /\ last.results[k].type # "none"
                   /\ last.results[m].type # "none")
                => last.results[k].winner.id # last.results[m].winner.id

\* a defender moves to a better lot and another agent takes the lot it left
C15_Witness ==
    /\ RoundCommitted
    /\ \E k \in DemotedLots : EligibleAt(k) # {}

\* ---------------------------------------------------------------------- C16
\* identity and wealth of the agents housed or unhoused in a state
AgentsOf(grid, list) ==
    {<<grid[i].occupant.id, grid[i].occupant.wealth>> : i \in OccupiedIn(grid)}
    \cup {<<list[n].id, list[n].wealth>> : n \in DOMAIN list}

\* how often an agent with this identity and wealth is housed or unhoused
Occurrences(a, grid, list) ==
    Cardinality({i \in OccupiedIn(grid) :
                    grid[i].occupant.id = a[1] /\ grid[i].occupant.wealth = a[2]})
    + Cardinality({n \in DOMAIN list :
                    list[n].id = a[1] /\ list[n].wealth = a[2]})

\* C16: a live round loses and alters no agent: every agent housed or
\* unhoused before the round is afterwards the occupant of exactly one parcel
\* or in the unhoused list, with the same identity and wealth, and every pool
\* agent that won no lot is in the unhoused list.
C16_NoAgentLost ==
    [][last'.currentRound # Null =>
        /\ \A a \in AgentsOf(parcels, unhoused) :
              Occurrences(a, parcels', unhoused') = 1
        /\ \A n \in DOMAIN last'.pool :
              (\A k \in DOMAIN last'.results :
                    last'.results[k].winner.id # last'.pool[n].id)
              => \E m \in DOMAIN unhoused' :
                    /\ unhoused'[m].id = last'.pool[n].id
                    /\ unhoused'[m].wealth = last'.pool[n].wealth]_vars

\* a round after which a former leaseholder is unhoused and an agent housed
\* before is housed still
C16_Witness ==
    /\ RoundCommitted
    /\ \E i \in OccupiedIn(last.scored) : \E m \in DOMAIN unhoused :
            unhoused[m].id = last.scored[i].occupant.id
    /\ \E i \in OccupiedIn(last.scored) : \E j \in OccupiedIn(parcels) :
            parcels[j].occupant.id = last.scored[i].occupant.id

\* ---------------------------------------------------------------------- C17
\* C17: every lot won in round r gets an occupant with leaseStart = r and a
\* lease length between minLeaseLength and maxLeaseLength, the settings in
\* force during the round.
C17_LeaseTerms ==
    RoundCommitted =>
        \A k \in DOMAIN last.lots :
            EligibleAt(k) # {} =>
                /\ Won(k).occupant # NoAgent
                /\ Won(k).occupant.leaseStart = last.currentRound
                /\ Won(k).occupant.leaseLength \in Int
                /\ minLeaseLength <= Won(k).occupant.leaseLength
                /\ Won(k).occupant.leaseLength <= maxLeaseLength

\* a lot won in round 2 while the shortest lease allowed is 2 rounds
C17_Witness ==
    /\ RoundCommitted
    /\ last.currentRound = 2
    /\ minLeaseLength = 2
    /\ \E k \in DOMAIN last.lots : EligibleAt(k) # {}

\* ---------------------------------------------------------------------- C18
\* the parcels that got an occupant in the round: the lots somebody could
\* afford
NewlyOccupied ==
    {last.lots[k].index : k \in {m \in DOMAIN last.lots : EligibleAt(m) # {}}}

\* C18: after the auctions of a round every parcel left without occupant has
\* its vacancy streak and its cumulative vacancy counter incremented by
\* exactly 1, every parcel newly occupied in the round has streak 0 and its
\* cumulative counter unchanged, and the cumulative counter never decreases.
C18_VacancyCounters ==
    RoundCommitted =>
        \A i \in Indices :
            /\ parcels[i].occupant = NoAgent =>
                /\ parcels[i].roundsVacant = last.scored[i].roundsVacant + 1
                /\ parcels[i].totalRoundsVacant
                      = last.scored[i].totalRoundsVacant + 1
            /\ i \in NewlyOccupied =>
                /\ parcels[i].roundsVacant = 0
                /\ parcels[i].totalRoundsVacant
                      = last.scored[i].totalRoundsVacant
            /\ parcels[i].totalRoundsVacant >= last.scored[i].totalRoundsVacant

\* a round that leaves a parcel vacant for the third time, vacates an expired
\* lease and occupies a parcel that had been vacant before
C18_Witness ==
    /\ RoundCommitted
    /\ \E i \in Indices :
        parcels[i].occupant = NoAgent /\ parcels[i].roundsVacant = 3
    /\ \E i \in Indices :
        /\ parcels[i].occupant = NoAgent
        /\ last.scored[i].occupant # NoAgent
    /\ \E i \in NewlyOccupied : last.scored[i].roundsVacant > 0

\* ---------------------------------------------------------------------- C19
\* the identities of the occupants whose lease has expired by currentRound
ExpiredIds(grid, currentRound) ==
    {grid[i].occupant.id : i \in OccupiedIn(grid) \ ActiveIn(grid, currentRound)}

\* C19: the bidder pool of a round consists of exactly the defenders of the
\* round's expired leases, the agents of the unhoused list and immigrationRate
\* new agents; no identity is in it twice, and each new agent has a wealth in
\* 1 .. maxWealth and roundEntered equal to the round being processed.
C19_BidderPool ==
    [][last'.currentRound # Null =>
        LET pool == last'.pool
            old == ExpiredIds(parcels, round + 1)
                   \cup {unhoused[n].id : n \in DOMAIN unhoused}
            new == {n \in DOMAIN pool : pool[n].id \notin old}
        IN  /\ last'.currentRound = round + 1
            /\ old \subseteq {pool[n].id : n \in DOMAIN pool}
            /\ Cardinality(new) = immigrationRate
            /\ \A n, m \in DOMAIN pool : n # m => pool[n].id # pool[m].id
            /\ \A n \in new :
                /\ pool[n].wealth \in 1 .. maxWealth
                /\ pool[n].roundEntered = round + 1]_vars

\* a pool with a defender, a carried-over agent and a new immigrant
C19_Witness ==
    /\ RoundCommitted
    /\ \E n \in DOMAIN last.pool : last.pool[n].source = "expired_lease"
    /\ \E n \in DOMAIN last.pool : last.pool[n].source = "unhoused"
    /\ \E n \in DOMAIN last.pool : last.pool[n].source = "new_immigrant"

\* ---------------------------------------------------------------------- C20
\* the immigrants created by the round that committed the state
Newcomers(pool) ==
    {n \in DOMAIN pool : pool[n].source = "new_immigrant"}

\* C20: the identities of new immigrants are unique by construction: none
\* equals another created in the same round or that of an agent of the live
\* state the round starts from, also after stepping back and processing a
\* round again, and also when the timestamp and random parts coincide (they
\* always do within 0 .. MaxNonce).
C20_FreshIdentities ==
    [][last'.currentRound # Null =>
        \A n \in Newcomers(last'.pool) :
            /\ \A a \in AgentsOf(parcels, unhoused) : a[1] # last'.pool[n].id
            /\ \A m \in Newcomers(last'.pool) :
                  m # n => last'.pool[m].id # last'.pool[n].id]_vars

\* round 2 processed again after a step back (the snapshot of round 1 is in
\* the history twice), with agents in the state it starts from
C20_Witness ==
    /\ RoundCommitted
    /\ last.currentRound = 2
    /\ Len(history) >= 2
    /\ history[Len(history)] = history[Len(history) - 1]
    /\ OccupiedIn(last.scored) # {}
    /\ Newcomers(last.pool) # {}

\* ---------------------------------------------------------------------- C21
\* C21: an agent carries leaseStart and leaseLength only while it occupies a
\* parcel: every agent in the unhoused list, former leaseholders that lost or
\* were priced out of their lot included, has neither.
C21_UnhousedCarryNoLease ==
    \A k \in DOMAIN unhoused :
        /\ unhoused[k].leaseStart = Null
        /\ unhoused[k].leaseLength = Null

\* ---------------------------------------------------------------------- C22
\* C22: a live round stores the snapshot {round, grid, unhoused} of the
\* pre-round state as the last entry of history; the snapshots at or before
\* the cursor are kept in place and the ones after it are discarded (with no
\* cursor, all are kept).
C22_SnapshotPushed ==
    [][last'.currentRound # Null =>
        LET keep == IF historyIndex >= 0 THEN historyIndex + 1
                    ELSE Len(history)
        IN  /\ Len(history') = keep + 1
            /\ history'[keep + 1].round = round
            /\ history'[keep + 1].parcels = parcels
            /\ history'[keep + 1].unhoused = unhoused
            /\ \A k \in 1 .. keep : history'[k] = history[k]]_vars

\* round 1 processed again from the oldest snapshot while a newer snapshot
\* was stored behind the cursor: history is the initial state twice
C22_Witness ==
    /\ RoundCommitted
    /\ round = 1
    /\ Len(history) = 2
    /\ history[1] = history[2]
    /\ history[2].round = 0

\* ---------------------------------------------------------------------- C23
\* the position of the displayed state in history, 0-based: the cursor, or
\* one past the last snapshot when the live state is displayed
Position == IF historyIndex = -1 THEN Len(history) ELSE historyIndex

\* C23: step-back moves the cursor one position toward older snapshots and
\* displays the round, grid and unhoused pool of the snapshot there; at the
\* oldest snapshot, or with no history, it changes nothing.
C23_StepBack ==
    [][handleStepBack =>
        IF history = <<>> \/ historyIndex = 0
        THEN UNCHANGED sim
        ELSE /\ historyIndex' = Position - 1
             /\ round' = history[Position].round
             /\ parcels' = history[Position].parcels
             /\ unhoused' = history[Position].unhoused
             /\ history'[historyIndex' + 1] = history[Position]]_vars

\* two rounds, then stepped back to the oldest of three snapshots
C23_Witness ==
    /\ last = NoRound
    /\ Len(history) = 3
    /\ historyIndex = 0
    /\ round = 0
    /\ history[2].round = 1
    /\ history[3].round = 2

\* ---------------------------------------------------------------------- C24
\* the cursor is on a stored snapshot that is not the newest
InHistory == inHistory(Current)

\* a step of handleStepForward: in history, the replay of a snapshot;
\* otherwise the steps of processRoundRef.current(), the only ones that
\* leave the record of a round
StepForwardTaken ==
    IF InHistory THEN handleStepForward ELSE last'.currentRound # Null

\* C24: step-forward with the cursor on a snapshot that is not the newest
\* displays the next newer snapshot and processes no round (history is
\* unchanged, no agent is created); with the cursor at the newest entry, or
\* on the live state, it processes one live round: the round number grows by
\* 1 and one snapshot, of the state displayed before, is added to history.
C24_StepForward ==
    [][StepForwardTaken =>
        IF InHistory
        THEN /\ historyIndex' = historyIndex + 1
             /\ round' = history[historyIndex + 2].round
             /\ parcels' = history[historyIndex + 2].parcels
             /\ unhoused' = history[historyIndex + 2].unhoused
             /\ history' = history
             /\ last' = NoRound
        ELSE /\ last'.currentRound = round + 1
             /\ round' = round + 1
             /\ historyIndex' = -1
             /\ Len(history') = Len(history) + 1
             /\ SubSeq(history', 1, Len(history)) = history
             /\ history'[Len(history')].round = round
             /\ history'[Len(history')].parcels = parcels
             /\ history'[Len(history')].unhoused = unhoused]_vars

\* stepped forward through history up to the newest snapshot, which a round
\* had committed agents to
C24_Witness ==
    /\ last = NoRound
    /\ historyIndex >= 1
    /\ historyIndex = Len(history) - 1
    /\ round = history[Len(history)].round
    /\ round >= 1
    /\ parcels = history[Len(history)].parcels
    /\ parcels # initializeParcels

\* ---------------------------------------------------------------------- C25
\* the step-back control is enabled (it is disabled with no history)
StepBackEnabled == ~ (history = <<>> /\ historyIndex = -1)

\* round number, grid and unhoused pool of s are those displayed now
SameDisplay(s) ==
    /\ s.round = round
    /\ s.parcels = parcels
    /\ s.unhoused = unhoused

\* a step-back followed at once by a step-forward restores the displayed
\* state: the step-forward replays a snapshot (otherwise it processes a live
\* round, and the round number grows), and that snapshot is the state
\* displayed before the step-back
RestoredByBackThenForward ==
    /\ inHistory(stepBack(Current))
    /\ SameDisplay(stepForward(stepBack(Current)))

\* C25 as stated: from any reachable state, a step-back immediately followed
\* by a step-forward yields the round number, grid and unhoused pool displayed
\* before the step-back.
C25_BackThenForwardAnywhere == StepBackEnabled => RestoredByBackThenForward

\* C25, amended: from any reachable state in which step-back moves the cursor
\* (there is history and the cursor is not on the oldest snapshot), a
\* step-back immediately followed by a step-forward yields the round number,
\* grid and unhoused pool displayed before the step-back.
C25_BackThenForward ==
    (history # <<>> /\ historyIndex # 0) => RestoredByBackThenForward

\* the state after a step-back from the live state and a step-forward: the
\* cursor is on the newest snapshot, which holds a round's unhoused agents
C25_Witness ==
    /\ last = NoRound
    /\ historyIndex = Len(history) - 1
    /\ historyIndex >= 1
    /\ unhoused # <<>>
    /\ history[Len(history) - 1].round = round - 1
    /\ RestoredByBackThenForward

\* ---------------------------------------------------------------------- C26
\* the snapshots a step keeps: a live round keeps those up to the cursor (all
\* of them without a cursor), a reset none, step-back and step-forward all
KeptSnapshots ==
    IF last'.currentRound # Null
    THEN IF historyIndex >= 0 THEN historyIndex + 1 ELSE Len(history)
    ELSE IF history' = <<>> /\ round' = 0 /\ historyIndex' = -1 THEN 0
    ELSE Len(history)

\* C26: a stored snapshot (round, every parcel with its event log, unhoused
\* pool) is never changed by a later live round, step-back or step-forward:
\* it stays in its place with the same content until a live round's
\* truncation or a reset removes it.
C26_SnapshotsFrozen ==
    [][/\ Len(history') >= KeptSnapshots
       /\ \A k \in 1 .. KeptSnapshots : history'[k] = history[k]]_vars

\* round 1, a step back, a step forward and a live round from the newest
\* snapshot: the two older snapshots are still there, with agents in the
\* grid of the second
C26_Witness ==
    /\ RoundCommitted
    /\ Len(history) = 3
    /\ history[1].round = 0
    /\ history[2].round = 1
    /\ history[3] = history[2]
    /\ OccupiedIn(history[2].parcels) # {}
    /\ \E i \in Indices : history[2].parcels[i].history # <<>>

\* ---------------------------------------------------------------------- C27
\* every state a live round can commit from the displayed state, over the
\* values Math.random() and Date.now() can return
RoundOutcomes ==
    UNION {processRound(wealths, nonces) :
            wealths \in [1 .. immigrationRate -> 1 .. maxWealth],
            nonces \in [1 .. immigrationRate -> 0 .. MaxNonce]}

\* C27: re-running the round step from round 0 with the same seed and
\* configuration gives the same sequence of states (grid, unhoused pool,
\* identities, wealths, lease lengths). The round takes no seed (its only
\* inputs are the state and the configuration), so this says that a state and
\* a configuration leave a round one outcome.
C27_SameRunAgain == Cardinality(RoundOutcomes) <= 1

\* ---------------------------------------------------------------------- C28
\* one identity is on two parcels, or on a parcel and in the unhoused list
DuplicateFound ==
    \/ \E i, j \in OccupiedIn(parcels) :
            i # j /\ parcels[i].occupant.id = parcels[j].occupant.id
    \/ \E k \in DOMAIN unhoused : \E i \in OccupiedIn(parcels) :
            unhoused[k].id = parcels[i].occupant.id

C29_RejectedAtConfiguration ==
    [][(minLeaseLength' > maxLeaseLength \/ maxLeaseLength' < minLeaseLength)
            => UNCHANGED config]_vars

\* ---------------------------------------------------------------------- C30
Distance(a, b) == IF a >= b THEN a - b ELSE b - a

\* the cells of the grid at ring d around parcel i: the larger of the row and
\* column distances is d (no wraparound)
RingAround(d) ==
    [i \in Indices |->
        {j \in Indices :
            Max(Distance(initializeParcels[i].row, initializeParcels[j].row),
                Distance(initializeParcels[i].col, initializeParcels[j].col))
            = d}]

OccupiedAround(i, d) == Cardinality(RingAround(d)[i] \cap OccupiedIn(parcels))

\* the initial grid with an agent on each parcel of occ
GridOccupiedAt(occ) ==
    [i \in Indices |->
        IF i \in occ
        THEN [initializeParcels[i] EXCEPT
                !.occupant = [NoAgent EXCEPT !.id = <<0, 1, i>>]]
        ELSE initializeParcels[i]]

\* calculateCommunityScore on every occupancy of the grid, the ones with more
\* agents than a run reaches included: the weighted count; 0 with no occupied
\* neighbour; 8 (16 halves) with exactly the 8 inner neighbours occupied
ScoreOfEveryGrid ==
    \A occ \in SUBSET Indices : \A i \in Indices :
        LET inner == Cardinality(RingAround(1)[i] \cap occ)
            outer == Cardinality(RingAround(2)[i] \cap occ)
            score == calculateCommunityScore(i, GridOccupiedAt(occ))
        IN  /\ score = 2 * inner + outer
            /\ (inner = 0 /\ outer = 0) => score = 0
            /\ (inner = 8 /\ outer = 0) => score = 2 * 8
            /\ score >= 0
            /\ score <= 2 * 16

\* a parcel of the grid has 8 immediate neighbours, and they can all be
\* occupied with no agent in its second ring
EightInnerNeighbours ==
    \E i \in Indices :
        /\ Cardinality(RingAround(1)[i]) = 8
        /\ calculateCommunityScore(i, GridOccupiedAt(RingAround(1)[i])) = 2 * 8

WonLots == {k \in DOMAIN last.results : last.results[k].type # "none"}

\* C31: every lease price set at auction, whatever the outcome (vacant claim,
\* contested vacant, uncontested renewal, challenger wins, tie, defender
\* wins), is at least the lot's current value of that round.
C31_PriceAtLeastValue ==
    RoundCommitted =>
        \A k \in WonLots :
            /\ last.results[k].leasePrice >= last.results[k].currentValue
            /\ Won(k).leasePrice >= last.lots[k].currentValue

\* a round with a sole claimant paying exactly the value of a vacant lot and
\* a challenger paying more than the value of the lot it took from its
\* defender
C31_Witness ==
    /\ RoundCommitted
    /\ \E k \in WonLots :
        /\ last.results[k].type = "vacant_claim"
        /\ Won(k).leasePrice = last.lots[k].currentValue
    /\ \E k \in WonLots :
        /\ last.results[k].type = "challenger_wins"
        /\ Won(k).leasePrice > last.lots[k].currentValue

\* the lots of the round that nobody won
VacantLeft == {k \in DOMAIN last.results : last.results[k].type = "none"}

\* C32: after a round every unhoused agent's wealth is strictly below the
\* auction-time current value of every lot the round left vacant.
C32_UnhousedBelowVacant ==
    RoundCommitted =>
        \A k \in VacantLeft :
            /\ parcels[last.lots[k].index].occupant = NoAgent
            /\ \A n \in DOMAIN unhoused :
                unhoused[n].wealth * Unit < last.lots[k].currentValue

\* an agent stayed unhoused in a round that left a lot vacant and let
\* another agent win a cheaper one
C32_Witness ==
    /\ RoundCommitted
    /\ unhoused # <<>>
    /\ VacantLeft # {}
    /\ \E k \in WonLots :
        \A j \in VacantLeft :
            last.lots[k].currentValue < last.lots[j].currentValue


\* C33: for every occupied parcel whose lease has not expired, getCurrentValue
\* is the locked lease price, whatever the weights.
C33_OccupiedShowsLeasePrice ==
    \A i \in ActiveIn(parcels, round) :
        getCurrentValue(parcels[i]) = parcels[i].leasePrice

\* the log of parcel i when the auctions of the round began: the log the
\* round started with, and the lease_expired event of an expired lease
LogBeforeAuction(i) ==
    ClearExpired(last.scored, last.currentRound, environmentMultiplier,
                 communityMultiplier)[i].history

\* lot k had more than one bidder: a second eligible agent on a vacant lot,
\* an eligible agent other than the defender on a defended one
Contested(k) ==
    LET res == last.results[k]
    IN  IF res.defender = NoId
        THEN Len(res.eligible) > 1
        ELSE \E n \in DOMAIN res.eligible : res.eligible[n].id # res.defender

\* C34: every lot won appends exactly one event to its parcel's log, stamped
\* with the round, of type auction_won exactly when the lot was contested and
\* occupied exactly when it was not, whose agent and leasePrice are the
\* parcel's new occupant and leasePrice; the earlier events are unchanged.
C34_OneEventPerWin ==
    RoundCommitted =>
        \A k \in WonLots :
            LET i == last.lots[k].index
                log == parcels[i].history
                before == LogBeforeAuction(i)
                event == log[Len(log)]
            IN  /\ Len(log) = Len(before) + 1
                /\ SubSeq(log, 1, Len(before)) = before
                /\ event.round = round
                /\ event.type \in {"auction_won", "occupied"}
                /\ event.type = "auction_won" <=> Contested(k)
                /\ event.type = "occupied" <=> ~Contested(k)
                /\ event.agent = parcels[i].occupant.id
                /\ event.wealth = parcels[i].occupant.wealth
                /\ event.leasePrice = parcels[i].leasePrice

\* a round with a contested and an uncontested win, one of them on a parcel
\* whose log already held events, and a price above the lot's value
C34_Witness ==
    /\ RoundCommitted
    /\ \E k \in WonLots : Contested(k)
    /\ \E k \in WonLots : ~Contested(k)
    /\ \E k \in WonLots : LogBeforeAuction(last.lots[k].index) # <<>>
    /\ \E k \in WonLots : Won(k).leasePrice > last.lots[k].currentValue

\* C35: the lease price charged for a lot never exceeds the wealth of the
\* agent who won it.
C35_PriceWithinWealth ==
    RoundCommitted =>
        \A k \in WonLots :
            /\ last.results[k].leasePrice <= last.results[k].winner.wealth * Unit
            /\ Won(k).leasePrice <= Won(k).occupant.wealth * Unit

\* a round in which a challenger took a lot from its defender, one winner
\* paid its whole wealth and another one less than its wealth
C35_Witness ==
    /\ RoundCommitted
    /\ \E k \in WonLots : last.results[k].type = "challenger_wins"
    /\ \E k \in WonLots : Won(k).leasePrice = Won(k).occupant.wealth * Unit
    /\ \E k \in WonLots : Won(k).leasePrice < Won(k).occupant.wealth * Unit

\* C36: in every reachable state whose round is at least 1, a parcel's vacancy
\* streak is 0 exactly when the parcel is occupied.
C36_StreakZeroIffOccupied ==
    round >= 1 =>
        \A i \in Indices :
            parcels[i].roundsVacant = 0 <=> parcels[i].occupant # NoAgent

\* a parcel occupied again after rounds of vacancy, a parcel vacant since
\* its lease expired and a parcel vacant for more than one round
C36_Witness ==
    /\ round >= 2
    /\ \E i \in Indices :
        /\ parcels[i].occupant # NoAgent
        /\ parcels[i].roundsVacant = 0
        /\ parcels[i].totalRoundsVacant > 0
    /\ \E i \in Indices :
        /\ parcels[i].occupant = NoAgent
        /\ parcels[i].roundsVacant = 1
        /\ parcels[i].history # <<>>
    /\ \E i \in Indices :
        /\ parcels[i].occupant = NoAgent
        /\ parcels[i].roundsVacant > 1

\* handleStepBack changes what is displayed
EffectiveStepBack == stepBack(Current).historyIndex # historyIndex

\* C37 as claimed: the round numbers of the snapshots in history are strictly
\* increasing, and every effective step-back shows a strictly smaller round.
C37_RoundsStrictlyIncreasing ==
    /\ \A n \in 1 .. Len(history) - 1 :
        history[n].round < history[n + 1].round
    /\ EffectiveStepBack => stepBack(Current).round < round

\* C37: the round numbers of the snapshots in history never decrease, an
\* effective step-back never shows a greater round, and a step-back from the
\* live state shows a strictly smaller one.
C37_RoundsNonDecreasing ==
    /\ \A n \in 1 .. Len(history) - 1 :
        history[n].round <= history[n + 1].round
    /\ EffectiveStepBack => stepBack(Current).round <= round
    /\ (EffectiveStepBack /\ historyIndex = -1) =>
            stepBack(Current).round < round

\* a history holding two snapshots of one round after a snapshot of an
\* earlier round, in a live state that can step back
C37_Witness ==
    /\ historyIndex = -1
    /\ EffectiveStepBack
    /\ \E n \in 1 .. Len(history) - 1 :
        history[n].round = history[n + 1].round
    /\ \E n \in 1 .. Len(history) - 1 :
        history[n].round < history[n + 1].round

\* C38: the cursor is -1 or an index of history, and at an index the
\* displayed round, grid and unhoused pool are the snapshot stored there.
C38_CursorShowsSnapshot ==
    \/ historyIndex = -1
    \/ /\ historyIndex \in 0 .. Len(history) - 1
       /\ history[historyIndex + 1].round = round
       /\ history[historyIndex + 1].parcels = parcels
       /\ history[historyIndex + 1].unhoused = unhoused

\* the cursor on a snapshot of a round after the first, with an older and a
\* different newer snapshot around it
C38_Witness ==
    /\ historyIndex > 0
    /\ historyIndex < Len(history) - 1
    /\ round > 0
    /\ OccupiedIn(parcels) # {}
    /\ history[historyIndex + 2].parcels # parcels

\* C39: after any sequence of lease-length adjustments and scenario
\* applications minLeaseLength <= maxLeaseLength, so the range a round draws
\* a lease length from is not empty.
C39_LeaseRangeNotEmpty ==
    /\ minLeaseLength <= maxLeaseLength
    /\ LeaseDraws(minLeaseLength, maxLeaseLength) # {}

\* the settings of a scenario whose lease range a slider has closed by
\* dragging the other bound along
C39_Witness ==
    /\ immigrationRate = 15
    /\ minLeaseLength = 20
    /\ maxLeaseLength = 20

====
